---- MODULE Spec2Model ----
(***************************************************************************)
(* A model of the firsttracks "pathfinder" crate: the constrained grid     *)
(* search of find_path.rs (successor closure, edge cost, the fringe search *)
(* it drives, and the ExplorationTracker that batches the frontier for an  *)
(* observer callback) and the terrain analyzer of azimuth.rs (5x5 Sobel,   *)
(* D8 flow directions, runout propagation with lateral spread).            *)
(*                                                                         *)
(* Numbers.  The code works on f64.  The model uses integers in fixed      *)
(* units chosen so that every comparison the code makes is decided exactly *)
(* as IEEE-754 decides it on the modelled inputs:                          *)
(*   - elevations are in 1/16 m (dyadic, so sums and differences of the    *)
(*     modelled values are exact in f32 and f64); the analyzer is also run *)
(*     on terrain counted in the least positive f32, 2^-149 m, and then    *)
(*     its slope magnitudes are in 2^-149 / 100000;                        *)
(*   - max_gradient is in 1/16 (0.5 = 8, 1.0 = 16);                        *)
(*   - azimuths are in 1/10 degree, the flat sentinel -1.0 is -10;         *)
(*   - slope magnitudes (gradients) are in 1/100000;                       *)
(*   - runout intensities are in 1/10000000.                               *)
(***************************************************************************)
EXTENDS Integers, Sequences, FiniteSets, TLC

VARIABLES
  \* ---- inputs of find_path_rs (decoded rasters, endpoints, options)
  width, height, elevations, azimuths, gradients,
  start_node, end_node, max_gradient, excluded_aspects,
  aspect_gradient_threshold,
  \* ---- the excluded_aspects argument as the host passed it (a JsValue)
  excluded_js,
  \* ---- ExplorationTracker (find_path.rs:57-68)
  tracker,
  \* ---- state of the fringe search driven by find_path_rs
  now, later, parents, flimit, fmin,
  \* ---- control position of find_path_rs and its result
  pc, result,
  \* ---- observation of the callback (the host side of callback.call1)
  cb_batch, cb_final, boundaries, cb_failed,
  \* ---- a second run of find_path_rs on the same inputs, without observer
  ref,
  \* ---- the analyzer (compute_azimuths_from_array, compute_runout_zones):
  \* its control position, the D8 raster, the runout raster, the index of the
  \* cell the source scan is at, the walk's locals, the spread passes done,
  \* and the unit the analyzer's elevations are counted in
  apc, flow_dir, runout, scan,
  current_y, current_x, runout_cells, current_intensity, spread_count,
  elevation_unit,
  \* ---- a single call of a pure function of azimuth.rs: its argument and,
  \* once it has returned, its result
  probe,
  \* ---- the rasters a first call of the analyzer returned, kept while it is
  \* called again
  first_run,
  \* ---- the walks in progress when the sources are not taken in scan order
  walks

inputVars  == <<width, height, elevations, azimuths, gradients, start_node,
                end_node, max_gradient, excluded_aspects,
                aspect_gradient_threshold, excluded_js>>
fringeVars == <<now, later, parents, flimit, fmin>>
cbVars     == <<cb_batch, cb_final, boundaries, cb_failed>>
searchVars == <<start_node, end_node, max_gradient, aspect_gradient_threshold,
                tracker, fringeVars, pc, result, cbVars, ref>>
walkVars   == <<current_y, current_x, runout_cells, current_intensity>>
sideVars   == <<probe, first_run, walks>>
analysisVars == <<apc, flow_dir, runout, scan, walkVars, spread_count,
                  elevation_unit, sideVars>>
vars       == <<inputVars, tracker, fringeVars, pc, result, cbVars, ref,
                analysisVars>>

-----------------------------------------------------------------------------
(* Arithmetic helpers *)

Abs(n) == IF n < 0 THEN -n ELSE n

Min(a, b) == IF a < b THEN a ELSE b

Max(a, b) == IF a > b THEN a ELSE b

Clamp(v, lo, hi) == IF v < lo THEN lo ELSE IF v > hi THEN hi ELSE v

RECURSIVE IsqrtBetween(_, _, _)
IsqrtBetween(n, lo, hi) ==
  \* largest r in lo..hi with r*r <= n, given lo*lo <= n < (hi+1)*(hi+1)
  IF lo = hi THEN lo
  ELSE CHOOSE r \in { IF mid * mid <= n THEN IsqrtBetween(n, mid, hi)
                                        ELSE IsqrtBetween(n, lo, mid - 1) :
                        mid \in {(lo + hi + 1) \div 2} } : TRUE

RECURSIVE IsqrtAbove(_, _)
IsqrtAbove(n, h) ==
  \* a power of two (or the largest root of an i32) whose square exceeds n
  IF h >= 32768 THEN 46340 ELSE IF h * h > n THEN h ELSE IsqrtAbove(n, 2 * h)

\* floor(sqrt(n)) for 0 <= n < 2^31: what f64 sqrt followed by "as i32" gives
\* on an integer argument
Isqrt(n) ==
  CHOOSE r \in { IsqrtBetween(m, 0, hi) : m \in {n}, hi \in {IsqrtAbove(n, 1)} } : TRUE

-----------------------------------------------------------------------------
(* Aspect (azimuth.rs:84-134).  Bearings in 1/10 degree. *)

Aspects == {"north", "northeast", "east", "southeast", "south", "southwest",
            "west", "northwest", "flat"}

FlatAzimuth == -10

SectorLow(aspect) ==
  CASE aspect = "northeast" -> 225
    [] aspect = "east"      -> 675
    [] aspect = "southeast" -> 1125
    [] aspect = "south"     -> 1575
    [] aspect = "southwest" -> 2025
    [] aspect = "west"      -> 2475
    [] aspect = "northwest" -> 2925

contains_azimuth(aspect, azimuth, tolerance) ==
  CASE aspect = "north" ->
         \/ (0 - tolerance) <= azimuth /\ azimuth <= (225 + tolerance)
         \/ (3375 - tolerance) <= azimuth /\ azimuth <= 3600
    [] aspect = "flat" -> azimuth = FlatAzimuth
    [] OTHER ->
         /\ (SectorLow(aspect) - tolerance) <= azimuth
         /\ azimuth <= (SectorLow(aspect) + 450 + tolerance)

-----------------------------------------------------------------------------
(* The excluded_aspects argument (find_path.rs:216-220, azimuth.rs:523-527) *)

\* a JsValue: undefined, null, an array of strings, or anything else
JsUndefined == [kind |-> "undefined", tags |-> << >>]

JsNull == [kind |-> "null", tags |-> << >>]

JsArray(tags) == [kind |-> "array", tags |-> tags]

JsOther == [kind |-> "other", tags |-> << >>]

\* serde_wasm_bindgen::from_value::<Vec<Aspect>>: Ok with the variants named
\* by the lowercase tags, Err if the value is no array or some element is no
\* tag of Aspect
deserializes(js) ==
  js.kind = "array" /\ \A k \in 1..Len(js.tags) : js.tags[k] \in Aspects

\* a reading that keeps the tags it knows and drops the others
from_value_lenient(js) ==
  { js.tags[k] : k \in { n \in 1..Len(js.tags) : js.tags[n] \in Aspects } }

\* vec![] for undefined and null, else from_value(..).unwrap_or(vec![]); the
\* Vec is read only by iterating over it, so its elements are kept as a set
from_value(js) ==
  IF js.kind = "undefined" \/ js.kind = "null" THEN {}
  ELSE IF deserializes(js) THEN { js.tags[k] : k \in 1..Len(js.tags) }
  ELSE {}

-----------------------------------------------------------------------------
(* Edge geometry and cost (find_path.rs:23-53) *)

\* distance(a, b)^2 in m^2: ((|dx|*10)^2 + (|dy|*10)^2)
distance_sq(a, b) ==
  LET dx == Abs(b[1] - a[1]) * 10
      dy == Abs(b[2] - a[2]) * 10
  IN  dx * dx + dy * dy

\* heuristic: distance((x, y), end_node) as i32
heuristic(node) == Isqrt(distance_sq(node, end_node))

\* dz (1/16 m) at which the f64 evaluation of d * (20 * (dz / d)) with
\* d = sqrt(200.0) falls one short of the exact floor(1.25 * dz)
DiagonalShort == {68, 100, 132, 136, 172, 196, 200}

\* linear_multiplier(gradient) * distance, truncated: cost_fn(d, dz / d) for a
\* step of squared length dsq (100: cardinal, 200: diagonal) and rise dz
cost_fn(dsq, dz) ==
  IF dsq = 100
    THEN Clamp((10 * dz) \div 8, 10, 200)
    ELSE IF dz \in DiagonalShort
           THEN ((10 * dz) \div 8) - 1
           ELSE Clamp((10 * dz) \div 8, 14, 282)

\* the slope test on the magnitude of the gradient: |dz| / d < max_gradient
gradient_below_magnitude(dsq, dz, mg) ==
  IF dsq = 100
    THEN Abs(dz) < 10 * mg
    ELSE mg >= 0 /\ dz * dz < 200 * mg * mg

\* gradient < max_gradient for gradient = (dz/16) / sqrt(dsq), mg in 1/16
gradient_below(dsq, dz, mg) ==
  IF dsq = 100
    THEN dz < 10 * mg
    ELSE IF dz >= 0 /\ mg >= 0 THEN dz * dz < 200 * mg * mg
         ELSE IF dz < 0 /\ mg >= 0 THEN TRUE
         ELSE IF dz >= 0 THEN FALSE
         ELSE dz * dz > 200 * mg * mg

-----------------------------------------------------------------------------
(* The successors closure (find_path.rs:272-307), without its tracker call *)

\* DIRECTIONS with its first offset mistyped
DIRECTIONS_mistyped == << <<0, 2>>, <<1, 0>>, <<0, -1>>, <<-1, 0>>,
                          <<1, 1>>, <<1, -1>>, <<-1, -1>>, <<-1, 1>> >>

DIRECTIONS == << <<0, 1>>, <<1, 0>>, <<0, -1>>, <<-1, 0>>,
                 <<1, 1>>, <<1, -1>>, <<-1, -1>>, <<-1, 1>> >>

\* nx < width && ny < height on usize: a coordinate below 0 wraps above both
in_bounds(nx, ny) == nx >= 0 /\ nx < width /\ ny >= 0 /\ ny < height

\* find_path.rs:287-295: the neighbour's gradient exceeds the threshold and
\* its azimuth lies in an excluded aspect widened by 2.5 degrees
aspect_blocked(nx, ny) ==
  /\ gradients[ny][nx] > aspect_gradient_threshold
  /\ \E aspect \in excluded_aspects :
       contains_azimuth(aspect, azimuths[ny][nx], 25)

\* the slope test written gradient <= max_gradient
edge_ok_inclusive(x, y, nx, ny) ==
  LET dz == elevations[ny][nx] - elevations[y][x]
  IN  IF distance_sq(<<x, y>>, <<nx, ny>>) = 100
        THEN dz <= 10 * max_gradient
        ELSE dz <= 0 \/ dz * dz <= 200 * max_gradient * max_gradient

\* find_path.rs:297-303: the slope test and the cost of the move
edge_ok(x, y, nx, ny) ==
  gradient_below(distance_sq(<<x, y>>, <<nx, ny>>),
                 elevations[ny][nx] - elevations[y][x], max_gradient)

edge_cost(x, y, nx, ny) ==
  cost_fn(distance_sq(<<x, y>>, <<nx, ny>>),
          elevations[ny][nx] - elevations[y][x])

RECURSIVE neighbors_from(_, _, _, _)
neighbors_from(k, x, y, acc) ==
  \* the 'neighbors loop from direction k on, acc the list pushed so far
  IF k > Len(DIRECTIONS) THEN acc
  ELSE LET nx == x + DIRECTIONS[k][1]
           ny == y + DIRECTIONS[k][2]
       IN IF ~in_bounds(nx, ny) THEN neighbors_from(k + 1, x, y, acc)
          ELSE IF aspect_blocked(nx, ny) THEN acc        \* break 'neighbors
          ELSE IF edge_ok(x, y, nx, ny)
                 THEN neighbors_from(k + 1, x, y,
                        Append(acc, << <<nx, ny>>, edge_cost(x, y, nx, ny) >>))
                 ELSE neighbors_from(k + 1, x, y, acc)

\* the closure with `continue` in place of `break 'neighbors`: every
\* neighbour filtered on its own
neighbors_unbroken(x, y) ==
  LET passes(k) ==
        LET nx == x + DIRECTIONS[k][1]
            ny == y + DIRECTIONS[k][2]
        IN  in_bounds(nx, ny) /\ ~aspect_blocked(nx, ny) /\ edge_ok(x, y, nx, ny)
      kept == SelectSeq([k \in 1..Len(DIRECTIONS) |-> k], passes)
  IN  [i \in 1..Len(kept) |->
         LET nx == x + DIRECTIONS[kept[i]][1]
             ny == y + DIRECTIONS[kept[i]][2]
         IN  << <<nx, ny>>, edge_cost(x, y, nx, ny) >>]

neighbors(x, y) == neighbors_from(1, x, y, << >>)

-----------------------------------------------------------------------------
(* ExplorationTracker (find_path.rs:57-200) *)

\* find_path.rs:92-110.  (2.0^min(max(log10(total) - 2.5, 0), 4)) as usize is
\* 1 below 500 explored nodes and steps up by one at each of these totals
\* (the least total at which the f64 power reaches 2, 3, ..., 16)
BatchSteps == << 3163, 12161, 31623, 66364, 121609, 202935, 316228, 467655,
                 663634, 910819, 1216081, 1586499, 2029341, 2552059, 3162278 >>

batch_multiplier(total) ==
  IF total < 500 THEN 1
  ELSE 1 + Cardinality({ k \in 1..Len(BatchSteps) : BatchSteps[k] <= total })

current_batch_size(tr) == tr.base_batch_size * batch_multiplier(tr.total_explored)

has_unexplored_neighbor(explored, x, y) ==
  \E k \in 1..Len(DIRECTIONS) :
    LET nx == x + DIRECTIONS[k][1]
        ny == y + DIRECTIONS[k][2]
    IN  in_bounds(nx, ny) /\ <<nx, ny>> \notin explored

\* the visited node alone is re-examined, its neighbours are not
update_frontier_self_only(tr, x, y) ==
  IF has_unexplored_neighbor(tr.explored, x, y)
    THEN tr ELSE [tr EXCEPT !.frontier = @ \ {<<x, y>>}]

\* find_path.rs:137-178
update_frontier_around(tr, x, y) ==
  LET f1 == IF has_unexplored_neighbor(tr.explored, x, y)
              THEN tr.frontier ELSE tr.frontier \ {<<x, y>>}
      interior == { n \in f1 :
                      /\ \E k \in 1..Len(DIRECTIONS) :
                           n = <<x + DIRECTIONS[k][1], y + DIRECTIONS[k][2]>>
                      /\ in_bounds(n[1], n[2])
                      /\ ~has_unexplored_neighbor(tr.explored, n[1], n[2]) }
  IN  [tr EXCEPT !.frontier = f1 \ interior]

\* flush without its test of the frontier
flush_invokes_always(tr) == tr.callback

\* find_path.rs:180-199: flush calls the callback iff there is one and the
\* frontier is not empty; the callback's result is discarded (let _ =)
flush_invokes(tr) == tr.callback /\ tr.frontier # {}

\* find_path.rs:113-127: add_node up to the batch test
visit(tr, x, y) ==
  CHOOSE r \in
    { [t2 EXCEPT !.batch_counter = @ + 1] :
        t2 \in { update_frontier_around(t1, x, y) :
                   t1 \in { [tr EXCEPT !.explored = @ \cup {<<x, y>>},
                                       !.total_explored = @ + 1,
                                       !.frontier = @ \cup {<<x, y>>}] } } } : TRUE

\* find_path.rs:130: the visit reaches the batch threshold
at_batch_boundary(tr) == tr.batch_counter >= current_batch_size(tr)

\* find_path.rs:113-134
add_node(tr, x, y) ==
  IF ~tr.callback THEN tr
  ELSE CHOOSE r \in { IF at_batch_boundary(t) THEN [t EXCEPT !.batch_counter = 0]
                                               ELSE t :
                        t \in {visit(tr, x, y)} } : TRUE

-----------------------------------------------------------------------------
(* pathfinding::directed::fringe::fringe, as find_path_rs calls it          *)
(* (find_path.rs:311-312).  parents is the insertion-ordered index map      *)
(* node -> (parent index, g); indices are 1-based here and parent 0 is the  *)
(* library's usize::MAX of the start node.  now and later hold indices.     *)

MaxValue == 2147483647

index_of(P, node) ==
  IF \E n \in 1..Len(P) : P[n].node = node
    THEN CHOOSE n \in 1..Len(P) : P[n].node = node
    ELSE 0

in_seq(q, n) == \E k \in 1..Len(q) : q[k] = n

\* remove(v, e): drop the first occurrence of e
remove(q, n) ==
  IF ~in_seq(q, n) THEN q
  ELSE LET k == CHOOSE j \in 1..Len(q) :
                  q[j] = n /\ \A m \in 1..(j - 1) : q[m] # n
       IN  SubSeq(q, 1, k - 1) \o SubSeq(q, k + 1, Len(q))

\* one turn of the for loop over the successors of the node at index i, whose
\* cost from the start is g; acc holds parents, now and later
insert_one(acc, succ, i, g) ==
  LET successor   == succ[1]
      g_successor == g + succ[2]
      entry       == [node |-> successor, parent |-> i, g |-> g_successor]
  IN CHOOSE r \in
       { IF n = 0
           THEN [parents |-> Append(acc.parents, entry),
                 now     |-> <<Len(acc.parents) + 1>> \o acc.now,
                 later   |-> acc.later]
         ELSE IF acc.parents[n].g > g_successor
           THEN [parents |-> [acc.parents EXCEPT ![n] = entry],
                 now     |-> <<n>> \o (IF in_seq(acc.later, n)
                                         THEN acc.now ELSE remove(acc.now, n)),
                 later   |-> remove(acc.later, n)]
         ELSE acc :
           n \in {index_of(acc.parents, successor)} } : TRUE

\* the for loop from the k-th successor on (each turn's outcome is named by a
\* bound variable, so that it is computed once)
RECURSIVE insert_successors(_, _, _, _, _)
insert_successors(succs, k, i, g, acc) ==
  IF k > Len(succs) THEN acc
  ELSE CHOOSE r \in
         { insert_successors(succs, k + 1, i, g, a) :
             a \in { insert_one(acc, succ, i, g) : succ \in {succs[k]} } } : TRUE

RECURSIVE reverse_path(_, _)
reverse_path(P, i) ==
  IF i = 0 THEN << >> ELSE Append(reverse_path(P, P[i].parent), P[i].node)

-----------------------------------------------------------------------------
(* find_path_rs (find_path.rs:203-353) from the call of fringe on.  A run's *)
(* state is the record [now, later, parents, flimit, fmin, pc, result,     *)
(* tracker]; each step below is one step of the code on such a record.     *)

Pending == [kind |-> "pending"]
NoPath  == [kind |-> "none"]
Found(path, cost) == [kind |-> "path", path |-> path, cost |-> cost]

\* ExplorationTracker::new (find_path.rs:71-88)
NewTracker(callback, batch_size) ==
  [callback |-> callback, explored |-> {}, frontier |-> {},
   batch_counter |-> 0, total_explored |-> 0, base_batch_size |-> batch_size]

\* the state in which fringe starts (find_path.rs:253-261, 311-312)
StartRun(callback, batch_size) ==
  [now |-> <<1>>, later |-> << >>,
   parents |-> << [node |-> start_node, parent |-> 0, g |-> 0] >>,
   flimit |-> heuristic(start_node), fmin |-> MaxValue,
   pc |-> "loop", result |-> Pending,
   tracker |-> NewTracker(callback, batch_size)]

\* a closure that leaves without neighbours when its visit flushed a batch
successors_flush_returns(tr, x, y) ==
  [tracker   |-> add_node(tr, x, y),
   neighbors |-> IF tr.callback /\ at_batch_boundary(visit(tr, x, y))
                   THEN << >> ELSE neighbors(x, y)]

\* the successors closure (find_path.rs:272-307): the tracker's add_node,
\* then the neighbour list
successors(tr, x, y) ==
  [tracker |-> add_node(tr, x, y), neighbors |-> neighbors(x, y)]

f_of(st, i) == st.parents[i].g + heuristic(st.parents[i].node)

\* top of fringe's loop: None when now is empty, else a new pass
loop_top(st) ==
  IF st.now = << >>
    THEN [st EXCEPT !.result = NoPath, !.pc = "flush"]
    ELSE [st EXCEPT !.fmin = MaxValue, !.pc = "while"]

\* the popped node's f exceeds the limit: it is kept for the next pass
pop_defer(st) ==
  LET i == Head(st.now)
      f == f_of(st, i)
  IN  [st EXCEPT !.fmin = IF f < @ THEN f ELSE @,
                 !.later = Append(@, i),
                 !.now = Tail(@)]

\* the popped node is the end node: fringe returns the path and its cost
pop_success(st) ==
  LET i == Head(st.now)
  IN  [st EXCEPT !.result = Found(reverse_path(st.parents, i), st.parents[i].g),
                 !.now = Tail(@),
                 !.pc = "flush"]

\* the popped node is expanded and fringe files its successors
pop_expand(st) ==
  LET i    == Head(st.now)
      node == st.parents[i].node
      open == [parents |-> st.parents, now |-> Tail(st.now), later |-> st.later]
  IN  CHOOSE next \in
        UNION { { [st EXCEPT !.tracker = s.tracker, !.parents = r.parents,
                             !.now = r.now, !.later = r.later] :
                    r \in {insert_successors(s.neighbors, 1, i,
                                             st.parents[i].g, open)} } :
                s \in {successors(st.tracker, node[1], node[2])} } : TRUE

\* the swap without the new limit
end_pass_keeps_limit(st) ==
  [st EXCEPT !.now = st.later, !.later = << >>, !.pc = "loop"]

\* now is exhausted: mem::swap(&mut now, &mut later); flimit = fmin
end_pass(st) ==
  [st EXCEPT !.now = st.later, !.later = << >>, !.flimit = st.fmin, !.pc = "loop"]

\* which of the three a pop is
PopKind(st) ==
  IF f_of(st, Head(st.now)) > st.flimit THEN "defer"
  ELSE IF st.parents[Head(st.now)].node = end_node THEN "success"
  ELSE "expand"

\* the next step of a run, whichever it is
run_step(st) ==
  CASE st.pc = "loop"  -> loop_top(st)
    [] st.pc = "while" ->
         IF st.now = << >> THEN end_pass(st)
         ELSE CASE PopKind(st) = "defer"   -> pop_defer(st)
                [] PopKind(st) = "success" -> pop_success(st)
                [] OTHER                   -> pop_expand(st)
    [] st.pc = "flush" -> [st EXCEPT !.pc = "done"]
    [] OTHER           -> st

\* what find_path_rs returns for fringe's result (find_path.rs:317-320, 352)
return_value(res) == IF res.kind = "path" THEN res.path ELSE "No path found"

-----------------------------------------------------------------------------
(* The run as a state machine.  The second, unobserved run takes its steps *)
(* alongside: both are sequential runs of the same code on the same inputs *)

Cur == [now |-> now, later |-> later, parents |-> parents, flimit |-> flimit,
        fmin |-> fmin, pc |-> pc, result |-> result, tracker |-> tracker]

Becomes(st) ==
  /\ now' = st.now
  /\ later' = st.later
  /\ parents' = st.parents
  /\ flimit' = st.flimit
  /\ fmin' = st.fmin
  /\ pc' = st.pc
  /\ result' = st.result
  /\ tracker' = st.tracker

\* the analyzer is not running
AnalysisIdle ==
  /\ apc = "idle"
  /\ flow_dir = << >>
  /\ runout = << >>
  /\ scan = 0
  /\ current_y = 0
  /\ current_x = 0
  /\ runout_cells = 0
  /\ current_intensity = 0
  /\ spread_count = 0
  /\ elevation_unit = "sixteenth"
  /\ probe = << >>
  /\ first_run = << >>
  /\ walks = {}

InitSearch(callback, batch_size) ==
  /\ AnalysisIdle
  /\ LET st == StartRun(callback, batch_size)
     IN  /\ now = st.now
         /\ later = st.later
         /\ parents = st.parents
         /\ flimit = st.flimit
         /\ fmin = st.fmin
         /\ pc = st.pc
         /\ result = st.result
         /\ tracker = st.tracker
  /\ cb_batch = 0
  /\ cb_final = 0
  /\ boundaries = 0
  /\ cb_failed = FALSE
  /\ ref = StartRun(FALSE, 1)

LoopTop ==
  /\ pc = "loop"
  /\ \E st \in {loop_top(Cur)} : Becomes(st)
  /\ ref' = run_step(ref)
  /\ UNCHANGED <<analysisVars, inputVars, cbVars>>

PopDefer ==
  /\ pc = "while"
  /\ now # << >>
  /\ \E cur \in {Cur} :
       /\ PopKind(cur) = "defer"
       /\ \E st \in {pop_defer(cur)} : Becomes(st)
  /\ ref' = run_step(ref)
  /\ UNCHANGED <<analysisVars, inputVars, cbVars>>

PopSuccess ==
  /\ pc = "while"
  /\ now # << >>
  /\ \E cur \in {Cur} :
       /\ PopKind(cur) = "success"
       /\ \E st \in {pop_success(cur)} : Becomes(st)
  /\ ref' = run_step(ref)
  /\ UNCHANGED <<analysisVars, inputVars, cbVars>>

\* the expansion, with what the host sees of it: whether the visit reached a
\* batch boundary, whether the callback was invoked there, and (ok) whether
\* that invocation succeeded
PopExpand ==
  /\ pc = "while"
  /\ now # << >>
  /\ \E cur \in {Cur} :
       /\ PopKind(cur) = "expand"
       /\ \E st \in {pop_expand(cur)} : Becomes(st)
  /\ \E t \in {visit(tracker, parents[Head(now)].node[1],
                               parents[Head(now)].node[2])} :
       LET hit == tracker.callback /\ at_batch_boundary(t)
       IN  /\ boundaries' = IF hit THEN boundaries + 1 ELSE boundaries
           /\ cb_batch' = IF hit /\ flush_invokes(t) THEN cb_batch + 1 ELSE cb_batch
           /\ \E ok \in BOOLEAN :
                cb_failed' = (cb_failed \/ (hit /\ flush_invokes(t) /\ ~ok))
  /\ ref' = run_step(ref)
  /\ UNCHANGED <<analysisVars, inputVars, cb_final>>

EndPass ==
  /\ pc = "while"
  /\ now = << >>
  /\ \E st \in {end_pass(Cur)} : Becomes(st)
  /\ ref' = run_step(ref)
  /\ UNCHANGED <<analysisVars, inputVars, cbVars>>

\* find_path.rs:314-320: the terminal flush, then the result is returned
FinalFlush ==
  /\ pc = "flush"
  /\ pc' = "done"
  /\ cb_final' = IF flush_invokes(tracker) THEN cb_final + 1 ELSE cb_final
  /\ \E ok \in BOOLEAN :
       cb_failed' = (cb_failed \/ (flush_invokes(tracker) /\ ~ok))
  /\ ref' = run_step(ref)
  /\ UNCHANGED <<analysisVars, inputVars, tracker, fringeVars, result, cb_batch,
               boundaries>>

Next == LoopTop \/ PopDefer \/ PopSuccess \/ PopExpand \/ EndPass \/ FinalFlush

ReturnValue == return_value(result)

-----------------------------------------------------------------------------
(* Inputs of the small-grid specification: a GridSize x GridSize terrain   *)
(* that is flat except for column 1, raised into a wall (scenario S4), and *)
(* at most one steep east-facing cell; east is the excluded aspect.  The   *)
(* search starts west of the wall.                                         *)

GridSize == 3

MaxBatch == 2

\* wall heights in 1/16 m: none, 4.5 m (a passable 0.45 slope on a cardinal
\* move, max_gradient being 0.5), 5 m (exactly 0.5: refused), 10 m
WallHeights == {0, 72, 80, 160}

WallTerrain(w, h, wc, wh) ==
  [y \in 0..(h - 1) |-> [x \in 0..(w - 1) |-> IF x = wc THEN wh ELSE 0]]

HazardAzimuths(w, h, hz) ==
  [y \in 0..(h - 1) |->
     [x \in 0..(w - 1) |-> IF <<x, y>> = hz THEN 900 ELSE FlatAzimuth]]

HazardGradients(w, h, hz) ==
  [y \in 0..(h - 1) |-> [x \in 0..(w - 1) |-> IF <<x, y>> = hz THEN 30000 ELSE 0]]

Cells(w, h) == (0..(w - 1)) \X (0..(h - 1))

Init ==
  /\ width = GridSize
  /\ height = GridSize
  /\ \E wh \in WallHeights : elevations = WallTerrain(GridSize, GridSize, 1, wh)
  /\ \E hz \in Cells(GridSize, GridSize) \cup {<<-1, -1>>} :
       /\ azimuths = HazardAzimuths(GridSize, GridSize, hz)
       /\ gradients = HazardGradients(GridSize, GridSize, hz)
  /\ start_node \in {<<0, 0>>, <<0, 1>>}
  /\ end_node \in Cells(GridSize, GridSize)
  /\ max_gradient = 8
  /\ excluded_js = JsArray(<<"east">>)
  /\ excluded_aspects = from_value(excluded_js)
  /\ aspect_gradient_threshold = 0
  /\ \E callback \in BOOLEAN, batch_size \in 1..MaxBatch :
       /\ ~callback => batch_size = 1
       /\ InitSearch(callback, batch_size)

Spec == Init /\ [][Next]_vars

-----------------------------------------------------------------------------
(* Properties of the returned path *)

Returned == pc = "done" /\ result.kind = "path"

PathPairs == { k \in 1..(Len(result.path) - 1) : TRUE }

Rise(p, q) == elevations[q[2]][q[1]] - elevations[p[2]][p[1]]

\* (E[q] - E[p]) / d(p, q) < max_gradient, for max_gradient >= 0
SlopeBelowMax(p, q) ==
  IF distance_sq(p, q) = 100
    THEN Rise(p, q) < 10 * max_gradient
    ELSE Rise(p, q) <= 0 \/
         Rise(p, q) * Rise(p, q) < 200 * max_gradient * max_gradient

\* A[q] lies in an excluded aspect widened by 2.5 degrees
InExcludedAspect(q) ==
  \E aspect \in excluded_aspects :
    contains_azimuth(aspect, azimuths[q[2]][q[1]], 25)

\* C1: on every returned path each consecutive pair (p, q) has signed slope
\* strictly below max_gradient, and when G[q] exceeds the aspect gradient
\* threshold, A[q] is in no excluded aspect widened by 2.5 degrees.
C1_PathEdgesFeasible ==
  Returned =>
    \A k \in PathPairs :
      LET p == result.path[k]
          q == result.path[k + 1]
      IN  /\ SlopeBelowMax(p, q)
          /\ gradients[q[2]][q[1]] > aspect_gradient_threshold
               => ~InExcludedAspect(q)

\* a returned path climbs the 4.5 m wall while a steep east-facing cell exists
C1_Witness ==
  /\ Returned
  /\ \E k \in PathPairs : Rise(result.path[k], result.path[k + 1]) = 72
  /\ \E y \in 0..(height - 1), x \in 0..(width - 1) : gradients[y][x] > 0

Chebyshev(p, q) == Max(Abs(p[1] - q[1]), Abs(p[2] - q[2]))

\* C2: every returned path begins at the start pixel, ends at the end pixel,
\* holds only in-bounds pixels, moves between 8-adjacent pixels and holds no
\* pixel twice.
C2_PathWellFormed ==
  Returned =>
    LET path == result.path
    IN  /\ Len(path) >= 1
        /\ path[1] = start_node
        /\ path[Len(path)] = end_node
        /\ \A k \in 1..Len(path) :
             /\ 0 <= path[k][1] /\ path[k][1] < width
             /\ 0 <= path[k][2] /\ path[k][2] < height
        /\ \A k \in PathPairs : Chebyshev(path[k], path[k + 1]) = 1
        /\ \A j, k \in 1..Len(path) : j # k => path[j] # path[k]

\* a returned path of at least three pixels
C2_Witness == Returned /\ Len(result.path) >= 3

-----------------------------------------------------------------------------
(* The graph of the successor closure: cheapest costs and reachability *)

\* the moves the successor closure offers from pixel p: <<from, to, cost>>
MovesFrom(p) ==
  { <<p, m[1][m[2]][1], m[1][m[2]][2]>> :
      m \in { n \in {neighbors(p[1], p[2])} \X (1..Len(DIRECTIONS)) :
                n[2] <= Len(n[1]) } }

\* all moves of the grid
Moves == UNION { MovesFrom(p) : p \in Cells(width, height) }

SetMin(T) == CHOOSE m \in T : \A n \in T : m <= n

\* the costs of reaching c by one move from a pixel whose cost is known
CostsInto(E, dist, c) ==
  { dist[e[1]] + e[3] : e \in { d \in E : d[2] = c /\ dist[d[1]] >= 0 } }

RECURSIVE cheapest(_, _)
cheapest(E, dist) ==
  \* Bellman-Ford to its fixpoint; -1 is "no path known"
  CHOOSE r \in
    { IF next = dist THEN dist ELSE cheapest(E, next) :
        next \in { [c \in DOMAIN dist |->
                      LET T == CostsInto(E, dist, c) \cup
                               (IF dist[c] >= 0 THEN {dist[c]} ELSE {})
                      IN  IF T = {} THEN -1 ELSE SetMin(T)] } } : TRUE

\* the cost of a cheapest path from the start pixel to each pixel, -1 if none
CheapestFromStart ==
  CHOOSE r \in
    { cheapest(E, [c \in Cells(width, height) |->
                     IF c = start_node THEN 0 ELSE -1]) :
        E \in {Moves} } : TRUE

RECURSIVE reach(_, _)
reach(E, R) ==
  CHOOSE r \in
    { IF next = R THEN R ELSE reach(E, next) :
        next \in { R \cup { e[2] : e \in { d \in E : d[1] \in R } } } } : TRUE

\* the pixels some chain of successor moves leads to from the start pixel
ReachableFromStart ==
  CHOOSE r \in { reach(E, {start_node}) : E \in {Moves} } : TRUE

\* C3 (as claimed): a returned path's total cost is the minimum over all paths
\* from the start pixel to the end pixel in the graph of the successor closure.
C3_ReturnedCostIsMinimal ==
  Returned => result.cost = CheapestFromStart[end_node]

\* the small-grid inputs with the steep cell, if any, in row 1, and the
\* observer absent or batching MaxBatch visits
FairInit ==
  /\ width = GridSize
  /\ height = GridSize
  /\ \E wh \in WallHeights : elevations = WallTerrain(GridSize, GridSize, 1, wh)
  /\ \E hz \in ((0..(GridSize - 1)) \X {1}) \cup {<<-1, -1>>} :
       /\ azimuths = HazardAzimuths(GridSize, GridSize, hz)
       /\ gradients = HazardGradients(GridSize, GridSize, hz)
  /\ start_node \in {<<0, 0>>, <<0, 1>>}
  /\ end_node \in Cells(GridSize, GridSize)
  /\ max_gradient = 8
  /\ excluded_js = JsArray(<<"east">>)
  /\ excluded_aspects = from_value(excluded_js)
  /\ aspect_gradient_threshold = 0
  /\ \E callback \in BOOLEAN : InitSearch(callback, IF callback THEN MaxBatch ELSE 1)

\* the search as the code runs it: sequential, so it always takes its next step
FairSpec == FairInit /\ [][Next]_vars /\ WF_vars(Next)

\* C4: the search terminates; it returns a path if the end pixel is reachable
\* from the start pixel through the successor relation, and otherwise, with
\* the open lists exhausted, "No path found" and no partial path.
C4_TerminatesWithOutcome ==
  <>( /\ pc = "done"
      /\ (result.kind = "path") <=> (end_node \in ReachableFromStart)
      /\ result.kind # "path" =>
           /\ result = NoPath
           /\ now = << >> /\ later = << >>
           /\ ReturnValue = "No path found" )

\* a search that expanded nodes, exhausted its lists and returned no path
C4_Witness ==
  /\ pc = "done"
  /\ result = NoPath
  /\ Len(parents) > 1
  /\ ReturnValue = "No path found"

-----------------------------------------------------------------------------
(* Inputs of the trench specification: a (TrenchRun + 2) x (TrenchRun + 1)  *)
(* plain whose main diagonal, from (1, 1) on, lies TrenchDepth/16 m lower;  *)
(* the search runs from the north-west corner to the south-east corner.     *)

TrenchRun == 8

TrenchDepths == {0, 9}

TrenchTerrain(w, h, depth) ==
  [y \in 0..(h - 1) |->
     [x \in 0..(w - 1) |-> IF x = y /\ x >= 1 THEN 0 - depth ELSE 0]]

TrenchInit ==
  /\ width = TrenchRun + 2
  /\ height = TrenchRun + 1
  /\ \E depth \in TrenchDepths : elevations = TrenchTerrain(width, height, depth)
  /\ azimuths = HazardAzimuths(width, height, <<-1, -1>>)
  /\ gradients = HazardGradients(width, height, <<-1, -1>>)
  /\ start_node = <<0, 0>>
  /\ end_node = <<TrenchRun + 1, TrenchRun>>
  /\ max_gradient = 16
  /\ excluded_js = JsArray(<< >>)
  /\ excluded_aspects = from_value(excluded_js)
  /\ aspect_gradient_threshold = 0
  /\ \E callback \in BOOLEAN : InitSearch(callback, MaxBatch)

SpecTrench == TrenchInit /\ [][Next]_vars

-----------------------------------------------------------------------------
(* The tracker on its own: an observer is present and add_node is called   *)
(* for any in-bounds nodes in any order, the same node any number of times *)

TrackerSide == 3

MaxVisits == 9

TrackerInit ==
  /\ width = TrackerSide
  /\ height = TrackerSide
  /\ elevations = WallTerrain(TrackerSide, TrackerSide, 0, 0)
  /\ azimuths = HazardAzimuths(TrackerSide, TrackerSide, <<-1, -1>>)
  /\ gradients = HazardGradients(TrackerSide, TrackerSide, <<-1, -1>>)
  /\ start_node = <<0, 0>>
  /\ end_node = <<0, 0>>
  /\ max_gradient = 8
  /\ excluded_js = JsArray(<< >>)
  /\ excluded_aspects = from_value(excluded_js)
  /\ aspect_gradient_threshold = 0
  /\ InitSearch(TRUE, 1)

\* successors' first statement, tracker.borrow_mut().add_node(x, y), for any node
Visit ==
  /\ tracker.total_explored < MaxVisits
  /\ \E x \in 0..(width - 1), y \in 0..(height - 1) :
       tracker' = add_node(tracker, x, y)
  /\ UNCHANGED <<analysisVars, inputVars, fringeVars, pc, result, cbVars, ref>>

TrackerNext == Visit

SpecTracker == TrackerInit /\ [][TrackerNext]_vars

\* the explored cells with an in-bounds 8-neighbour that is not explored
Boundary(explored) ==
  { c \in explored : has_unexplored_neighbor(explored, c[1], c[2]) }

\* C5: with an observer present, after any sequence of node visits the
\* frontier is exactly the set of explored cells that have at least one
\* in-bounds 8-neighbour not in explored, and so a subset of explored.
C5_FrontierIsBoundary ==
  tracker.callback =>
    /\ tracker.frontier = Boundary(tracker.explored)
    /\ tracker.frontier \subseteq tracker.explored

\* some node was visited more than once, an explored cell has left the
\* frontier and another is still on it
C5_Witness ==
  /\ tracker.callback
  /\ tracker.total_explored > Cardinality(tracker.explored)
  /\ tracker.frontier # {}
  /\ tracker.frontier # tracker.explored

-----------------------------------------------------------------------------
(* The callback's invocations over a search run (cb_batch: from add_node at *)
(* batch boundaries; cb_final: from the flush after fringe has returned)    *)

\* C6 (as claimed): with an observer, the callback is invoked at most once per
\* batch boundary, and exactly once more as the terminal flush after the
\* search has terminated, with a path or with "No path found".
C6_ExactlyOneTerminalCall ==
  tracker.callback =>
    /\ cb_batch <= boundaries
    /\ pc # "done" => cb_final = 0
    /\ pc = "done" => cb_final = 1

\* C6 (amended): with an observer, the callback is invoked at most once per
\* batch boundary, the visit counter being reset to 0 there; after the search
\* has terminated the terminal flush invokes it once if the frontier is not
\* empty and not at all if it is, which is the case exactly when the start
\* pixel is the end pixel and no node was visited.
C6_TerminalCallIffFrontier ==
  tracker.callback =>
    /\ cb_batch <= boundaries
    /\ tracker.batch_counter < current_batch_size(tracker)
    /\ pc # "done" => cb_final = 0
    /\ pc = "done" =>
         /\ cb_final = (IF tracker.frontier # {} THEN 1 ELSE 0)
         /\ (tracker.frontier = {}) <=> (start_node = end_node)

\* a finished run whose callback was invoked at a batch boundary and by the
\* terminal flush, with visits left over since the last boundary
C6_Witness ==
  /\ pc = "done"
  /\ tracker.callback
  /\ cb_batch >= 1
  /\ cb_final = 1
  /\ tracker.batch_counter > 0

-----------------------------------------------------------------------------
(* The observed run against the unobserved one *)

\* C7: the result of the path finder (the returned path, or "No path found")
\* is the same for the same terrain, endpoints and options whether the
\* callback is absent, present and succeeding, or present and failing, and
\* whatever the batch size: it is the result of the run without observer.
C7_ResultIgnoresObserver ==
  pc = "done" =>
    /\ ref.pc = "done"
    /\ ReturnValue = return_value(ref.result)

\* a finished run that found a path while its callback, invoked at a batch
\* boundary, failed
C7_Witness ==
  /\ pc = "done"
  /\ tracker.callback
  /\ cb_failed
  /\ cb_batch >= 1
  /\ result.kind = "path"
  /\ Len(result.path) > 2

-----------------------------------------------------------------------------
(* The Sobel analyzer (azimuth.rs:137-169 and 505-599).  Rasters are        *)
(* indexed [row i][column j].  The Sobel sums gx, gy are in 1/16 m, exact.  *)

KernelRadius == 2

\* the kernel with one coefficient off, so that its entries do not sum to 0
gx_kernel_unbalanced == << << -5,  -4, 0,  4,  5>>,
                           << -8, -10, 0, 10,  8>>,
                           <<-10, -20, 0, 20, 11>>,
                           << -8, -10, 0, 10,  8>>,
                           << -5,  -4, 0,  4,  5>> >>

gx_kernel == << << -5,  -4, 0,  4,  5>>,
                << -8, -10, 0, 10,  8>>,
                <<-10, -20, 0, 20, 10>>,
                << -8, -10, 0, 10,  8>>,
                << -5,  -4, 0,  4,  5>> >>

gy_kernel == << <<-5,  -8, -10,  -8, -5>>,
                <<-4, -10, -20, -10, -4>>,
                << 0,   0,   0,   0,  0>>,
                << 4,  10,  20,  10,  4>>,
                << 5,   8,  10,   8,  5>> >>

\* the kernel loop over ki, kj from its k-th turn (ki = k \div 5, kj = k % 5)
RECURSIVE convolve_from(_, _, _, _, _)
convolve_from(E, K, i, j, k) ==
  IF k = Len(K) * Len(K) THEN 0
  ELSE E[i + (k \div Len(K)) - KernelRadius][j + (k % Len(K)) - KernelRadius]
         * K[(k \div Len(K)) + 1][(k % Len(K)) + 1]
       + convolve_from(E, K, i, j, k + 1)

\* azimuth.rs:137-152: atan2(-gx, gy) in degrees, normalized to [0, 360), for
\* gradient vectors on the eight principal directions, where the f64 result
\* is the exact multiple of 45 (other vectors are outside the modelled inputs)
calculate_azimuth(gx, gy) ==
  IF gx = 0 /\ gy = 0 THEN FlatAzimuth
  ELSE CASE gx = 0 /\ gy > 0   -> 0
         [] gx < 0 /\ gy = -gx -> 450
         [] gx < 0 /\ gy = 0   -> 900
         [] gx < 0 /\ gy = gx  -> 1350
         [] gx = 0 /\ gy < 0   -> 1800
         [] gx > 0 /\ gy = -gx -> 2250
         [] gx > 0 /\ gy = 0   -> 2700
         [] gx > 0 /\ gy = gx  -> 3150

\* azimuth.rs:155-169: sqrt((gx/680)^2 + (gy/680)^2) in 1/100000 of the
\* elevation unit: sqrt(gx^2 + gy^2) * 100000 / 680, and a sixteenth of it for
\* gx, gy in 1/16 m.  The squares of the modelled sums stay far above the
\* least positive f64, so a sum that is not zero has a slope that is not zero.
compute_gradient_along_azimuth(gx, gy, azimuth) ==
  IF azimuth = FlatAzimuth THEN 0
  ELSE (Isqrt(64 * (gx * gx + gy * gy)) * 625)
         \div (IF elevation_unit = "sixteenth" THEN 544 ELSE 34)

\* azimuth.rs:557-558: the cells the convolution loop visits
in_kernel_range(i, j) ==
  /\ i >= KernelRadius /\ i < height - KernelRadius
  /\ j >= KernelRadius /\ j < width - KernelRadius

\* azimuth.rs:574-577 for one cell
sobel_at(E, i, j) ==
  CHOOSE r \in
    { [azimuth  |-> calculate_azimuth(g[1], g[2]),
       gradient |-> compute_gradient_along_azimuth(g[1], g[2],
                      calculate_azimuth(g[1], g[2]))] :
        g \in { <<convolve_from(E, gx_kernel, i, j, 0),
                  convolve_from(E, gy_kernel, i, j, 0)>> } } : TRUE

\* azimuth.rs:553-580: both rasters start at 0.0 and the loop fills the interior
sobel(E) ==
  [i \in 0..(height - 1) |->
     [j \in 0..(width - 1) |->
        IF in_kernel_range(i, j) THEN sobel_at(E, i, j)
        ELSE [azimuth |-> 0, gradient |-> 0]]]

-----------------------------------------------------------------------------
(* D8 flow directions (azimuth.rs:174-224) *)

\* (dy, dx) of directions 0..7 = N, NE, E, SE, S, SW, W, NW
D8_OFFSETS == << <<-1, 0>>, <<-1, 1>>, <<0, 1>>, <<1, 1>>,
                 <<1, 0>>, <<1, -1>>, <<0, -1>>, <<-1, -1>> >>

NoFlow == 255

\* drop / D8_WEIGHTS[dir] (1.0 cardinal, 1.414 diagonal), times 1414
d8_slope(drop, dir) == IF dir % 2 = 0 THEN drop * 1414 ELSE drop * 1000

\* the turn with slope >= steepest_slope: among equals the last one wins
d8_turn_last_wins(E, i, j, dir, best) ==
  LET drop == E[i][j] - E[i + D8_OFFSETS[dir + 1][1]][j + D8_OFFSETS[dir + 1][2]]
  IN  IF drop > 0 /\ d8_slope(drop, dir) >= best.steepest_slope
        THEN [steepest_slope |-> d8_slope(drop, dir), steepest_dir |-> dir]
        ELSE best

\* azimuth.rs:204-219: one turn of the loop over the directions
d8_turn(E, i, j, dir, best) ==
  LET drop == E[i][j] - E[i + D8_OFFSETS[dir + 1][1]][j + D8_OFFSETS[dir + 1][2]]
  IN  IF drop > 0 /\ d8_slope(drop, dir) > best.steepest_slope
        THEN [steepest_slope |-> d8_slope(drop, dir), steepest_dir |-> dir]
        ELSE best

RECURSIVE steepest_from(_, _, _, _, _)
steepest_from(E, i, j, dir, best) ==
  IF dir = Len(D8_OFFSETS) THEN best.steepest_dir
  ELSE CHOOSE r \in { steepest_from(E, i, j, dir + 1, b) :
                        b \in {d8_turn(E, i, j, dir, best)} } : TRUE

\* rows and columns 1 .. len - 2
in_interior(i, j) == i >= 1 /\ i < height - 1 /\ j >= 1 /\ j < width - 1

compute_d8_flow_directions(E) ==
  [i \in 0..(height - 1) |->
     [j \in 0..(width - 1) |->
        IF in_interior(i, j)
          THEN steepest_from(E, i, j, 0,
                             [steepest_slope |-> 0, steepest_dir |-> NoFlow])
          ELSE NoFlow]]

-----------------------------------------------------------------------------
(* Runout zones (azimuth.rs:230-415).  Intensities in 1/10000000. *)

START_ZONE_THRESHOLD == 17600

BlendLimit == 35000

MAX_RUNOUT_CELLS == 50

INITIAL_INTENSITY == 10000000

FadeLimit == 500000

SPREAD_ITERATIONS == 2

\* azimuth.rs:279-294 (and 340-349, 389-398): steep, and facing an excluded
\* aspect widened by 22.5 degrees
is_source_zone(i, j) ==
  /\ elevation_unit = "sixteenth"    \* a slope counted in 2^-149 is below it
  /\ gradients[i][j] >= START_ZONE_THRESHOLD
  /\ \E aspect \in excluded_aspects :
       contains_azimuth(aspect, azimuths[i][j], 225)

\* azimuth.rs:299-305: 0.5 * (1 - (gradient - 0.176) / (0.35 - 0.176))
edge_blend(R, i, j) ==
  IF gradients[i][j] - START_ZONE_THRESHOLD < BlendLimit - START_ZONE_THRESHOLD
    THEN [R EXCEPT ![i][j] =
            Max(@, ((BlendLimit - gradients[i][j]) * 50000)
                     \div ((BlendLimit - START_ZONE_THRESHOLD) \div 100))]
    ELSE R

\* the scan's k-th cell, rows 1 .. height-2 by columns 1 .. width-2
scan_cell(k) == <<1 + (k \div (width - 2)), 1 + (k % (width - 2))>>

scan_end == (height - 2) * (width - 2)

\* a decay rate of 0.95
decay_slow(intensity) == (intensity * 95) \div 100

\* current_intensity *= DECAY_RATE
decay(intensity) == (intensity * 92) \div 100

\* runout[i][j] * SPREAD_DECAY
spread_decay(intensity) == (intensity * 7) \div 10

\* the eight neighbours instead of the four
spread_neighbors_diagonal(i, j) ==
  { <<i + D8_OFFSETS[d][1], j + D8_OFFSETS[d][2]>> : d \in 1..Len(D8_OFFSETS) }

\* azimuth.rs:383
spread_neighbors(i, j) == { <<i - 1, j>>, <<i + 1, j>>, <<i, j - 1>>, <<i, j + 1>> }

\* a spread that does not look whether its target is a source zone
spread_target_any(ny, nx) == in_interior(ny, nx)

\* azimuth.rs:386-400: the neighbour is inside the outer ring and no source zone
spread_target(ny, nx) == in_interior(ny, nx) /\ ~is_source_zone(ny, nx)

SetMax(T) == CHOOSE m \in T : \A n \in T : m >= n

\* azimuth.rs:377-411: one iteration of the lateral spread
spread_pass(R) ==
  [ny \in 0..(height - 1) |->
     [nx \in 0..(width - 1) |->
        SetMax({R[ny][nx]} \cup
               { spread_decay(R[c[1]][c[2]]) :
                   c \in { d \in (1..(height - 2)) \X (1..(width - 2)) :
                             /\ R[d[1]][d[2]] > 0
                             /\ <<ny, nx>> \in spread_neighbors(d[1], d[2])
                             /\ spread_target(ny, nx) } })]]

-----------------------------------------------------------------------------
(* compute_azimuths_from_array as a state machine *)

\* azimuth.rs:553-580
Convolve ==
  /\ apc = "convolve"
  /\ \E s \in {sobel(elevations)} :
       /\ azimuths' = [i \in 0..(height - 1) |->
                         [j \in 0..(width - 1) |-> s[i][j].azimuth]]
       /\ gradients' = [i \in 0..(height - 1) |->
                          [j \in 0..(width - 1) |-> s[i][j].gradient]]
  /\ apc' = "runout"
  /\ UNCHANGED <<width, height, elevations, excluded_aspects, excluded_js,
                 searchVars,
                 flow_dir, runout, scan, walkVars, spread_count,
                 elevation_unit, sideVars>>

\* azimuth.rs:246-257: the zero raster; with no aspect excluded it is the
\* result at once (no scan, no spread pass is left to do), else the D8
\* directions are computed
EnterRunout ==
  /\ apc = "runout"
  /\ runout' = [i \in 0..(height - 1) |-> [j \in 0..(width - 1) |-> 0]]
  /\ IF excluded_aspects = {}
       THEN /\ apc' = "spread"
            /\ spread_count' = SPREAD_ITERATIONS
            /\ UNCHANGED flow_dir
       ELSE /\ apc' = "scan"
            /\ flow_dir' = compute_d8_flow_directions(elevations)
            /\ UNCHANGED spread_count
  /\ UNCHANGED <<inputVars, searchVars, scan, walkVars, elevation_unit, sideVars>>

\* azimuth.rs:273-312: the scan moves on to its next source zone, blends it
\* and starts the walk there; with none left the scan is over
NextSource ==
  /\ apc = "scan"
  /\ \E rest \in { { k \in scan..(scan_end - 1) :
                       is_source_zone(scan_cell(k)[1], scan_cell(k)[2]) } } :
       IF rest = {}
         THEN /\ scan' = scan_end
              /\ apc' = "spread"
              /\ UNCHANGED <<runout, walkVars>>
         ELSE \E k \in {CHOOSE m \in rest : \A n \in rest : m <= n} :
                /\ scan' = k
                /\ runout' = edge_blend(runout, scan_cell(k)[1], scan_cell(k)[2])
                /\ current_y' = scan_cell(k)[1]
                /\ current_x' = scan_cell(k)[2]
                /\ runout_cells' = 0
                /\ current_intensity' = INITIAL_INTENSITY
                /\ apc' = "walk"
  /\ UNCHANGED <<inputVars, searchVars, flow_dir, spread_count,
                 elevation_unit, sideVars>>

\* a walk that marks every cell it enters
walk_marks_any(y, x) == TRUE

\* azimuth.rs:338-355: a walk marks the cell it enters unless the cell is
\* itself a source zone
walk_marks(y, x) == ~is_source_zone(y, x)

\* the walk is over: the scan goes on behind its source
EndWalk ==
  /\ apc' = "scan"
  /\ scan' = scan + 1
  /\ UNCHANGED <<runout, walkVars>>

\* azimuth.rs:314-367: one turn of the walk's loop
WalkStep ==
  /\ apc = "walk"
  /\ LET dir    == flow_dir[current_y][current_x]
         next_y == current_y + D8_OFFSETS[dir + 1][1]
         next_x == current_x + D8_OFFSETS[dir + 1][2]
         faded  == decay(current_intensity)
     IN  IF dir = NoFlow THEN EndWalk
         ELSE IF next_y = 0 \/ next_y >= height - 1 \/ next_x = 0 \/ next_x >= width - 1
           THEN EndWalk
         ELSE /\ current_y' = next_y
              /\ current_x' = next_x
              /\ runout_cells' = runout_cells + 1
              /\ current_intensity' = faded
              /\ runout' = IF walk_marks(next_y, next_x)
                             THEN [runout EXCEPT ![next_y][next_x] = Max(@, faded)]
                             ELSE runout
              /\ IF runout_cells + 1 >= MAX_RUNOUT_CELLS \/ faded < FadeLimit
                   THEN apc' = "scan" /\ scan' = scan + 1
                   ELSE UNCHANGED <<apc, scan>>
  /\ UNCHANGED <<inputVars, searchVars, flow_dir, spread_count,
                 elevation_unit, sideVars>>

\* azimuth.rs:377-411
SpreadPass ==
  /\ apc = "spread"
  /\ spread_count < SPREAD_ITERATIONS
  /\ runout' = spread_pass(runout)
  /\ spread_count' = spread_count + 1
  /\ UNCHANGED <<inputVars, searchVars, apc, flow_dir, scan, walkVars,
                 elevation_unit, sideVars>>

\* x as f32 (azimuth.rs:586-589) of a value that is not negative.  In the
\* fixed units of 1/16 m terrain every modelled value is either zero or far
\* above the least positive f32 and the units are coarser than the spacing of
\* f32, so the count is kept.  A slope counted in 2^-149 / 100000 is rounded
\* to a whole number of 2^-149, ties to even (a tie is recognised exactly for
\* gradient vectors along an axis).
narrow_f32(v) ==
  IF elevation_unit = "sixteenth" THEN v
  ELSE 100000 * (IF v % 100000 > 50000
                     \/ (v % 100000 = 50000 /\ (v \div 100000) % 2 = 1)
                   THEN (v \div 100000) + 1
                   ELSE v \div 100000)

\* azimuth.rs:414 and 583-598: the rasters are flattened to Vec<f32> and
\* returned.  Azimuths are -1, 0 or multiples of 45 and are kept by the
\* narrowing; the elevations came in as f32.
AnalysisReturn ==
  /\ apc = "spread"
  /\ spread_count = SPREAD_ITERATIONS
  /\ apc' = "returned"
  /\ gradients' = [i \in 0..(height - 1) |->
                     [j \in 0..(width - 1) |-> narrow_f32(gradients[i][j])]]
  /\ runout' = [i \in 0..(height - 1) |->
                  [j \in 0..(width - 1) |-> narrow_f32(runout[i][j])]]
  /\ UNCHANGED <<width, height, elevations, azimuths, excluded_aspects,
                 excluded_js,
                 searchVars, flow_dir, scan, walkVars, spread_count,
                 elevation_unit, sideVars>>

AnalysisNext ==
  Convolve \/ EnterRunout \/ NextSource \/ WalkStep \/ SpreadPass \/ AnalysisReturn

-----------------------------------------------------------------------------
(* Inputs of the analyzer specification.  Profile terrains vary along one   *)
(* axis only, E[i][j] = f(j) or E[i][j] = f(i), with f given by its steps   *)
(* from one cell to the next: one unit = 16 down, level, or 8 up; the other *)
(* axis has the five cells the kernel needs.  The ramp is a long profile    *)
(* along the columns, steep at its top and gentle below, on which walks run *)
(* until they fade.  Elevations are counted in 1/16 m or in 2^-149 m.       *)

ProfileLength == 7

RampLength == 44

\* the cells the 5x5 kernel spans
KernelSpan == 2 * KernelRadius + 1

\* steps of a profile, in elevation units
ProfileSteps == {-16, 0, 8}

RampSteps == [k \in 1..(RampLength - 1) |-> IF k <= 2 * KernelRadius THEN -16 ELSE -4]

RECURSIVE profile_height(_, _)
profile_height(steps, k) ==
  IF k = 0 THEN 0 ELSE profile_height(steps, k - 1) + steps[k]

profile_terrain(along, steps) ==
  [width  |-> IF along = "columns" THEN Len(steps) + 1 ELSE KernelSpan,
   height |-> IF along = "rows" THEN Len(steps) + 1 ELSE KernelSpan,
   elevations |->
     [i \in 0..((IF along = "rows" THEN Len(steps) + 1 ELSE KernelSpan) - 1) |->
        [j \in 0..((IF along = "columns" THEN Len(steps) + 1 ELSE KernelSpan) - 1) |->
           profile_height(steps, IF along = "columns" THEN j ELSE i)]]]

Terrains ==
  { profile_terrain(along, steps) :
      along \in {"columns", "rows"},
      steps \in [1..(ProfileLength - 1) -> ProfileSteps] }
    \cup { profile_terrain("columns", RampSteps) }

ExcludedChoices ==
  { JsArray(<< >>), JsArray(<<"east", "north">>), JsArray(<<"west", "south">>),
    JsArray(<<"east", "west", "north", "south">>) }

\* no search is running
SearchIdle ==
  /\ start_node = <<0, 0>>
  /\ end_node = <<0, 0>>
  /\ max_gradient = 16
  /\ aspect_gradient_threshold = 0
  /\ tracker = NewTracker(FALSE, 1)
  /\ now = << >>
  /\ later = << >>
  /\ parents = << >>
  /\ flimit = 0
  /\ fmin = MaxValue
  /\ pc = "idle"
  /\ result = Pending
  /\ cb_batch = 0
  /\ cb_final = 0
  /\ boundaries = 0
  /\ cb_failed = FALSE
  /\ ref = [pc |-> "idle"]

AnalysisInit ==
  /\ SearchIdle
  /\ \E t \in Terrains :
       /\ width = t.width
       /\ height = t.height
       /\ elevations = t.elevations
  /\ \/ elevation_unit = "sixteenth" /\ excluded_js \in ExcludedChoices
     \/ elevation_unit = "ulp"
        /\ excluded_js = JsArray(<<"east", "west", "north", "south">>)
  /\ excluded_aspects = from_value(excluded_js)
  /\ probe = << >>
  /\ first_run = << >>
  /\ walks = {}
  /\ azimuths = << >>
  /\ gradients = << >>
  /\ apc = "convolve"
  /\ flow_dir = << >>
  /\ runout = << >>
  /\ scan = 0
  /\ current_y = 0
  /\ current_x = 0
  /\ runout_cells = 0
  /\ current_intensity = 0
  /\ spread_count = 0

SpecAnalysis == AnalysisInit /\ [][AnalysisNext]_vars

-----------------------------------------------------------------------------
(* The runout raster against the D8 graph *)

Pixels == (0..(height - 1)) \X (0..(width - 1))

InteriorPixels == (1..(height - 2)) \X (1..(width - 2))

SourceZones == { c \in InteriorPixels : is_source_zone(c[1], c[2]) }

\* the cell the D8 direction of c points to (c itself at a sink)
flow_step(c) ==
  IF flow_dir[c[1]][c[2]] = NoFlow THEN c
  ELSE <<c[1] + D8_OFFSETS[flow_dir[c[1]][c[2]] + 1][1],
         c[2] + D8_OFFSETS[flow_dir[c[1]][c[2]] + 1][2]>>

\* the cells reached from the cells of S by at most n D8 steps
RECURSIVE flow_reach(_, _)
flow_reach(S, n) ==
  IF n = 0 THEN S
  ELSE CHOOSE r \in
         { IF next = S THEN S ELSE flow_reach(next, n - 1) :
             next \in { S \cup { flow_step(c) : c \in S } } } : TRUE

Manhattan(a, b) == Abs(a[1] - b[1]) + Abs(a[2] - b[2])

\* C8: in the final runout grid every cell with R > 0 lies within Manhattan
\* distance 2 of a cell that is a source cell or is reached from a source
\* cell by at most 50 D8 flow steps.
C8_RunoutNearFlow ==
  apc = "returned" =>
    \A core \in {flow_reach(SourceZones, MAX_RUNOUT_CELLS)} :
      \A c \in Pixels :
        runout[c[1]][c[2]] > 0 => \E d \in core : Manhattan(c, d) <= 2

\* a final grid with a marked cell two 4-neighbour steps from the flow cells
\* and no nearer
C8_Witness ==
  /\ apc = "returned"
  /\ \E core \in {flow_reach(SourceZones, MAX_RUNOUT_CELLS)} :
       \E c \in Pixels :
         /\ runout[c[1]][c[2]] > 0
         /\ \A d \in core : Manhattan(c, d) >= 2
         /\ \E d \in core : Manhattan(c, d) = 2

\* C9 (as claimed): in the returned runout grid R > 0 at a cell implies that
\* some source cell reaches it by following the D8 flow graph within the
\* propagation bound (the source cell itself being counted as reached).
C9_RunoutOnFlowFromSource ==
  apc = "returned" =>
    \A core \in {flow_reach(SourceZones, MAX_RUNOUT_CELLS)} :
      \A c \in Pixels : runout[c[1]][c[2]] > 0 => c \in core

\* one step of lateral spread: from interior cells into interior 4-neighbours
\* that are no source zones
spread_reach(S) ==
  S \cup { n \in InteriorPixels \ SourceZones :
             \E c \in S \cap InteriorPixels : n \in spread_neighbors(c[1], c[2]) }

\* the cells marked before the lateral spread: source zones flatter than the
\* blend limit, and interior cells, no source zones, on the D8 path of a source
MarkedByFlow ==
  { s \in SourceZones : gradients[s[1]][s[2]] < BlendLimit }
    \cup ((flow_reach(SourceZones, MAX_RUNOUT_CELLS) \cap InteriorPixels)
            \ SourceZones)

\* C9 (amended): in the returned runout grid R > 0 at a cell implies that the
\* cell is a source cell with G < 0.35, or a cell, itself no source, reached
\* from a source cell along the D8 flow graph within the bound, or a cell
\* inside the outer ring, itself no source, within two 4-neighbour spread
\* steps of one of those.
C9_RunoutOnFlowOrSpread ==
  apc = "returned" =>
    \A marked \in {spread_reach(spread_reach(MarkedByFlow))} :
      \A c \in Pixels : runout[c[1]][c[2]] > 0 => c \in marked

\* a final grid in which a blended source zone and a cell off every D8 path
\* from a source are both marked, next to an unmarked steeper source zone
C9_Witness ==
  /\ apc = "returned"
  /\ \E s \in SourceZones : runout[s[1]][s[2]] > 0
  /\ \E s \in SourceZones : runout[s[1]][s[2]] = 0
  /\ \E c \in Pixels :
       /\ runout[c[1]][c[2]] > 0
       /\ c \notin flow_reach(SourceZones, MAX_RUNOUT_CELLS)

\* C10: for every cell of the convolved interior the analyzer produces
\* A = -1 if and only if G = 0.
C10_FlatIffNoGradient ==
  apc = "returned" =>
    \A c \in Pixels :
      in_kernel_range(c[1], c[2]) =>
        ((azimuths[c[1]][c[2]] = FlatAzimuth) <=> (gradients[c[1]][c[2]] = 0))

-----------------------------------------------------------------------------
(* Single calls of the pure functions of azimuth.rs.  Nothing else runs:    *)
(* there are no rasters, no search and no analysis.                         *)

NothingRuns ==
  /\ SearchIdle
  /\ width = 0
  /\ height = 0
  /\ elevations = << >>
  /\ azimuths = << >>
  /\ gradients = << >>
  /\ excluded_js = JsUndefined
  /\ excluded_aspects = from_value(excluded_js)
  /\ apc = "idle"
  /\ flow_dir = << >>
  /\ runout = << >>
  /\ scan = 0
  /\ current_y = 0
  /\ current_x = 0
  /\ runout_cells = 0
  /\ current_intensity = 0
  /\ spread_count = 0
  /\ elevation_unit = "sixteenth"
  /\ first_run = << >>
  /\ walks = {}

\* azimuth.rs:99-115, bearings in 1/10 degree
from_azimuth(azimuth) ==
  IF azimuth = FlatAzimuth THEN "flat"
  ELSE CASE azimuth < 225  -> "north"
         [] azimuth >= 225  /\ azimuth < 675  -> "northeast"
         [] azimuth >= 675  /\ azimuth < 1125 -> "east"
         [] azimuth >= 1125 /\ azimuth < 1575 -> "southeast"
         [] azimuth >= 1575 /\ azimuth < 2025 -> "south"
         [] azimuth >= 2025 /\ azimuth < 2475 -> "southwest"
         [] azimuth >= 2475 /\ azimuth < 2925 -> "west"
         [] azimuth >= 2925 /\ azimuth < 3375 -> "northwest"
         [] OTHER -> "north"

\* the largest bearing tried, in 1/10 degree
MaxBearing == 3600

\* the bearings tried: the flat sentinel and every tenth of a degree
Bearings == {FlatAzimuth} \cup 0..MaxBearing

AspectInit ==
  /\ NothingRuns
  /\ \E a \in Bearings :
       probe = [call |-> "aspect", azimuth |-> a, returned |-> FALSE,
                aspect |-> "none", containing |-> {}]

\* Aspect::from_azimuth(a), and s.contains_azimuth(a, None) for every s
Classify ==
  /\ probe.call = "aspect"
  /\ ~probe.returned
  /\ probe' = [probe EXCEPT
                 !.returned = TRUE,
                 !.aspect = from_azimuth(probe.azimuth),
                 !.containing = { s \in Aspects :
                                    contains_azimuth(s, probe.azimuth, 0) }]
  /\ UNCHANGED <<inputVars, searchVars, apc, flow_dir, runout, scan, walkVars,
                 spread_count, elevation_unit, first_run, walks>>

SpecAspect == AspectInit /\ [][Classify]_vars

\* the boundaries between the arcs of two sectors: 22.5, 67.5, ..., 337.5
BinEdges == { 225 + 450 * k : k \in 0..7 }

\* the sector whose arc ends at the edge
LeftOf(edge) ==
  IF edge = 225 THEN "north"
  ELSE CHOOSE s \in Aspects \ {"north", "flat"} : SectorLow(s) + 450 = edge

\* C11: for every bearing a in [0, 360) that is no bin edge and every sector
\* s, s.contains_azimuth(a, 0) iff from_azimuth(a) = s; at a bin edge the
\* sector whose arc ends at the edge is the one from_azimuth returns and the
\* one contains_azimuth accepts.
C11_ContainsIffFromAzimuth ==
  (probe.call = "aspect" /\ probe.returned
     /\ probe.azimuth >= 0 /\ probe.azimuth < 3600) =>
    IF probe.azimuth \in BinEdges
      THEN /\ probe.aspect = LeftOf(probe.azimuth)
           /\ LeftOf(probe.azimuth) \in probe.containing
      ELSE \A s \in Aspects : (s \in probe.containing) <=> (probe.aspect = s)

-----------------------------------------------------------------------------
(* The analyzer called on a terrain and then on the same terrain raised or  *)
(* lowered by a constant.  The offsets keep every elevation a multiple of   *)
(* 1/16 m below 2^24 / 16 m, so both grids are exact as f32 and every sum   *)
(* of the convolution is exact as f64.                                      *)

OffsetProfileLength == 6

\* 10 m up, 100 m up, 1/16 m down (in 1/16 m)
Offsets == {160, 1600, -1}

OffsetTerrains ==
  { profile_terrain("columns", steps) :
      steps \in [1..(OffsetProfileLength - 1) -> ProfileSteps] }

OffsetInit ==
  /\ SearchIdle
  /\ \E t \in OffsetTerrains :
       /\ width = t.width
       /\ height = t.height
       /\ elevations = t.elevations
  /\ elevation_unit = "sixteenth"
  /\ excluded_js \in { JsArray(<<"east", "north">>), JsArray(<<"west">>) }
  /\ excluded_aspects = from_value(excluded_js)
  /\ probe = << >>
  /\ first_run = << >>
  /\ walks = {}
  /\ azimuths = << >>
  /\ gradients = << >>
  /\ apc = "convolve"
  /\ flow_dir = << >>
  /\ runout = << >>
  /\ scan = 0
  /\ current_y = 0
  /\ current_x = 0
  /\ runout_cells = 0
  /\ current_intensity = 0
  /\ spread_count = 0

\* compute_azimuths_from_array is called again, with the same dimensions and
\* excluded aspects, on the elevations plus c
CallAgain ==
  /\ apc = "returned"
  /\ first_run = << >>
  /\ first_run' = << [azimuths |-> azimuths, gradients |-> gradients,
                      runout_zones |-> runout] >>
  /\ \E c \in Offsets :
       elevations' = [i \in 0..(height - 1) |->
                        [j \in 0..(width - 1) |-> elevations[i][j] + c]]
  /\ azimuths' = << >>
  /\ gradients' = << >>
  /\ apc' = "convolve"
  /\ flow_dir' = << >>
  /\ runout' = << >>
  /\ scan' = 0
  /\ current_y' = 0
  /\ current_x' = 0
  /\ runout_cells' = 0
  /\ current_intensity' = 0
  /\ spread_count' = 0
  /\ UNCHANGED <<width, height, excluded_aspects, excluded_js, searchVars,
                 elevation_unit, probe, walks>>

OffsetNext == AnalysisNext \/ CallAgain

SpecOffset == OffsetInit /\ [][OffsetNext]_vars

-----------------------------------------------------------------------------
(* compute_d8_flow_directions on its own, on 3x3 grids: the centre cell at  *)
(* 0 and each of its eight neighbours level with it or up to MaxDrop units  *)
(* below it (the slopes of two such drops never come closer than 6%, so the *)
(* integer comparison of d8_slope is the f64 comparison).                   *)

MaxDrop == 2

D8Init ==
  /\ SearchIdle
  /\ width = 3
  /\ height = 3
  /\ \E around \in [1..Len(D8_OFFSETS) -> -MaxDrop..0] :
       elevations =
         [i \in 0..2 |->
            [j \in 0..2 |->
               IF i = 1 /\ j = 1 THEN 0
               ELSE around[CHOOSE d \in 1..Len(D8_OFFSETS) :
                             D8_OFFSETS[d] = <<i - 1, j - 1>>]]]
  /\ azimuths = << >>
  /\ gradients = << >>
  /\ excluded_js = JsArray(<<"north">>)
  /\ excluded_aspects = from_value(excluded_js)
  /\ apc = "d8"
  /\ flow_dir = << >>
  /\ runout = << >>
  /\ scan = 0
  /\ current_y = 0
  /\ current_x = 0
  /\ runout_cells = 0
  /\ current_intensity = 0
  /\ spread_count = 0
  /\ elevation_unit = "sixteenth"
  /\ probe = << >>
  /\ first_run = << >>
  /\ walks = {}

\* azimuth.rs:257
FlowDirections ==
  /\ apc = "d8"
  /\ flow_dir' = compute_d8_flow_directions(elevations)
  /\ apc' = "d8 done"
  /\ UNCHANGED <<inputVars, searchVars, runout, scan, walkVars, spread_count,
                 elevation_unit, sideVars>>

SpecD8 == D8Init /\ [][FlowDirections]_vars

\* the neighbour of cell c in direction d (0..7 = N, NE, E, SE, S, SW, W, NW)
toward(c, d) == <<c[1] + D8_OFFSETS[d + 1][1], c[2] + D8_OFFSETS[d + 1][2]>>

\* E[c] - E[neighbour in direction d]
drop_to(c, d) ==
  elevations[c[1]][c[2]] - elevations[toward(c, d)[1]][toward(c, d)[2]]

\* drop(d) / weight(d) >= drop(e) / weight(e), weights 1 and 1.414
at_least_as_steep(c, d, e) ==
  drop_to(c, d) * (IF e % 2 = 0 THEN 1000 ELSE 1414)
    >= drop_to(c, e) * (IF d % 2 = 0 THEN 1000 ELSE 1414)

\* C13: for every non-boundary cell the D8 direction is 255 iff no neighbour
\* is strictly lower; otherwise it is the first direction in the order N, NE,
\* E, SE, S, SW, W, NW among those of greatest drop / weight over the
\* neighbours with a positive drop, and so points to a strictly lower cell.
C13_FirstSteepestDescent ==
  apc = "d8 done" =>
    \A c \in InteriorPixels :
      LET lower == { d \in 0..7 : drop_to(c, d) > 0 }
          steepest == { d \in lower : \A e \in lower : at_least_as_steep(c, d, e) }
          dir == flow_dir[c[1]][c[2]]
      IN  /\ (dir = NoFlow) <=> (lower = {})
          /\ lower # {} =>
                /\ dir \in steepest
                /\ \A d \in steepest : dir <= d
                /\ elevations[toward(c, dir)[1]][toward(c, dir)[2]]
                     < elevations[c[1]][c[2]]

\* two cardinal neighbours and a diagonal one lie lower, the two cardinals
\* equally steep and steepest: S and W tie and S, the earlier one, is taken
C13_Witness ==
  /\ apc = "d8 done"
  /\ drop_to(<<1, 1>>, 4) = 2
  /\ drop_to(<<1, 1>>, 6) = 2
  /\ drop_to(<<1, 1>>, 1) = 2
  /\ drop_to(<<1, 1>>, 0) = 1
  /\ flow_dir[1][1] = 4

-----------------------------------------------------------------------------
(* Scenario S4 as two plateaus: the columns west of the cliff at 0, the     *)
(* columns from the cliff on at a height that makes every move across it,   *)
(* cardinal or diagonal, steeper than max_gradient = 0.5 in magnitude.      *)

CliffWidth == 3

\* 8 m (0.8 cardinal, 0.566 diagonal) and 10 m, in 1/16 m
CliffHeights == {128, 160}

CliffTerrain(w, h, cc, ch) ==
  [y \in 0..(h - 1) |-> [x \in 0..(w - 1) |-> IF x >= cc THEN ch ELSE 0]]

CliffInit ==
  /\ width = CliffWidth
  /\ height = 3
  /\ \E cc \in 1..(CliffWidth - 1), ch \in CliffHeights :
       elevations = CliffTerrain(CliffWidth, 3, cc, ch)
  /\ azimuths = HazardAzimuths(CliffWidth, 3, <<-1, -1>>)
  /\ gradients = HazardGradients(CliffWidth, 3, <<-1, -1>>)
  /\ start_node \in Cells(CliffWidth, 3)
  /\ end_node \in Cells(CliffWidth, 3)
  /\ max_gradient = 8
  /\ excluded_js = JsArray(<< >>)
  /\ excluded_aspects = from_value(excluded_js)
  /\ aspect_gradient_threshold = 0
  /\ \E callback \in BOOLEAN : InitSearch(callback, IF callback THEN MaxBatch ELSE 1)

SpecCliff == CliffInit /\ [][Next]_vars

Elevation(p) == elevations[p[2]][p[1]]

\* C14 (as claimed): on two flat plateaus separated by a cliff whose every
\* crossing move is steeper than max_gradient in magnitude, the path finder
\* returns "No path found" for a start on one plateau and an end on the
\* other, whichever plateau the start is on.
C14_NoPathAcrossCliff ==
  (pc = "done" /\ Elevation(start_node) # Elevation(end_node)) =>
    result.kind # "path"

\* C14 (amended): ... the path finder returns "No path found" for a start on
\* the lower plateau and an end on the higher one; for a start on the higher
\* plateau and an end on the lower one it returns a path, every move down
\* the cliff having a negative slope, which is below max_gradient.
C14_NoPathUpTheCliff ==
  (pc = "done" /\ Elevation(start_node) # Elevation(end_node)) =>
    ((result.kind # "path") <=> (Elevation(start_node) < Elevation(end_node)))

\* a search up the cliff has ended without a path after expanding the whole
\* lower plateau, and a search down the cliff has returned a path
C14_Witness ==
  /\ pc = "done"
  /\ \/ /\ Elevation(start_node) < Elevation(end_node)
        /\ result = NoPath
        /\ Len(parents) > 3
     \/ /\ Elevation(start_node) > Elevation(end_node)
        /\ result.kind = "path"
        /\ Len(result.path) > 2

-----------------------------------------------------------------------------
(* The successors closure called on one node (find_path.rs:272-307): a wall *)
(* in column 1 for the slope test, and up to two cells whose gradient and   *)
(* azimuth put them at, inside or outside the excluded east sector.         *)

SuccessorsSide == 3

\* 9 m, 10 m and 15 m in 1/16 m: with max_gradient 1.0 on a 10 m grid the
\* first passes every move, the second the diagonal ones, the third none
StepHeights == {0, 144, 160, 240}

\* the middle of east, the end of its arc widened by 2.5 degrees, and the
\* first tenth of a degree beyond it
MarkedAzimuths == {900, 1150, 1151}

MarkedCells == { hz \in SUBSET Cells(SuccessorsSide, SuccessorsSide) :
                   Cardinality(hz) <= 2 }

\* no analyzer call in progress
AnalyzerAtRest ==
  /\ apc = "idle"
  /\ flow_dir = << >>
  /\ runout = << >>
  /\ scan = 0
  /\ current_y = 0
  /\ current_x = 0
  /\ runout_cells = 0
  /\ current_intensity = 0
  /\ spread_count = 0
  /\ elevation_unit = "sixteenth"
  /\ first_run = << >>
  /\ walks = {}

SuccessorsInit ==
  /\ SearchIdle
  /\ AnalyzerAtRest
  /\ width = SuccessorsSide
  /\ height = SuccessorsSide
  /\ \E wh \in StepHeights :
       elevations = WallTerrain(SuccessorsSide, SuccessorsSide, 1, wh)
  /\ \E hz \in MarkedCells, a \in MarkedAzimuths, g \in {0, 1} :
       /\ azimuths = [y \in 0..(height - 1) |-> [x \in 0..(width - 1) |->
                        IF <<x, y>> \in hz THEN a ELSE FlatAzimuth]]
       /\ gradients = [y \in 0..(height - 1) |-> [x \in 0..(width - 1) |->
                         IF <<x, y>> \in hz THEN g ELSE 0]]
  /\ excluded_js = JsArray(<<"east">>)
  /\ excluded_aspects = from_value(excluded_js)
  /\ \E n \in Cells(SuccessorsSide, SuccessorsSide) :
       probe = [call |-> "successors", node |-> n, returned |-> FALSE,
                list |-> << >>]

\* the closure applied to the node
Successors ==
  /\ probe.call = "successors"
  /\ ~probe.returned
  /\ probe' = [probe EXCEPT
                 !.returned = TRUE,
                 !.list = neighbors(probe.node[1], probe.node[2])]
  /\ UNCHANGED <<inputVars, searchVars, apc, flow_dir, runout, scan, walkVars,
                 spread_count, elevation_unit, first_run, walks>>

SpecSuccessors == SuccessorsInit /\ [][Successors]_vars

\* the k-th neighbour of the probed node, in the order of DIRECTIONS
Neighbour(k) == <<probe.node[1] + DIRECTIONS[k][1],
                  probe.node[2] + DIRECTIONS[k][2]>>

InBounds(k) == in_bounds(Neighbour(k)[1], Neighbour(k)[2])

\* in bounds, gradient above the threshold, azimuth within 2.5 degrees of an
\* excluded aspect
Blocked(k) ==
  /\ InBounds(k)
  /\ gradients[Neighbour(k)[2]][Neighbour(k)[1]] > aspect_gradient_threshold
  /\ \E aspect \in excluded_aspects :
       contains_azimuth(aspect, azimuths[Neighbour(k)[2]][Neighbour(k)[1]], 25)

\* C15: the successor list of a node is exactly the in-bounds neighbours with
\* slope < max_gradient that precede, in the iteration order of DIRECTIONS,
\* the first in-bounds aspect-blocked neighbour; the blocked neighbour and
\* all later ones are not produced, the earlier ones are kept, in order.
C15_SuccessorsUpToFirstBlocked ==
  probe.returned =>
    LET Kept(k) ==
          /\ InBounds(k)
          /\ \A j \in 1..k : ~Blocked(j)
          /\ edge_ok(probe.node[1], probe.node[2],
                     Neighbour(k)[1], Neighbour(k)[2])
        kept == SelectSeq([k \in 1..Len(DIRECTIONS) |-> k], Kept)
    IN  /\ Len(probe.list) = Len(kept)
        /\ \A i \in 1..Len(kept) : probe.list[i][1] = Neighbour(kept[i])

\* the closure has returned a list with a successor before the first blocked
\* neighbour, nothing from it on although a later neighbour is in bounds,
\* not blocked and below the slope limit, and an earlier one left out for
\* its slope
C15_Witness ==
  /\ probe.returned
  /\ Len(probe.list) > 0
  /\ \E b \in 2..(Len(DIRECTIONS) - 1) :
       /\ Blocked(b)
       /\ \A j \in 1..(b - 1) : ~Blocked(j)
       /\ \E j \in 1..(b - 1) :
            InBounds(j) /\ ~edge_ok(probe.node[1], probe.node[2],
                                    Neighbour(j)[1], Neighbour(j)[2])
       /\ \E j \in (b + 1)..Len(DIRECTIONS) :
            /\ InBounds(j)
            /\ ~Blocked(j)
            /\ edge_ok(probe.node[1], probe.node[2],
                       Neighbour(j)[1], Neighbour(j)[2])

-----------------------------------------------------------------------------
(* Source cells in the runout grid *)

\* 0.5 * (1 - (G - 0.176) / (0.35 - 0.176)) in 1/10^7, and 0 from 0.35 on
EdgeBlendIntensity(c) ==
  IF gradients[c[1]][c[2]] >= BlendLimit THEN 0
  ELSE ((BlendLimit - gradients[c[1]][c[2]]) * 50000)
         \div ((BlendLimit - START_ZONE_THRESHOLD) \div 100)

\* a step of a walk or of the lateral spread leaves the source cells alone
SourceCellsKept ==
  apc \in {"walk", "spread"} =>
    \A c \in SourceZones : runout'[c[1]][c[2]] = runout[c[1]][c[2]]

\* C16: in the final runout grid every source cell holds exactly its
\* edge-blend intensity, 0 when G >= 0.35 and 0.5 * (1 - (G - 0.176) /
\* (0.35 - 0.176)) otherwise; the walks and the lateral spread never change
\* a source cell.
C16_SourceKeepsEdgeBlend ==
  /\ [](apc = "returned" =>
          \A c \in SourceZones : runout[c[1]][c[2]] = EdgeBlendIntensity(c))
  /\ [][SourceCellsKept]_vars

\* a walk stands on a source cell other than its own, already blended, with
\* more intensity than the cell holds
C16_Witness ==
  /\ apc = "walk"
  /\ runout_cells > 0
  /\ is_source_zone(current_y, current_x)
  /\ runout[current_y][current_x] > 0
  /\ current_intensity > runout[current_y][current_x]

-----------------------------------------------------------------------------
(* The scan over the source zones (azimuth.rs:273-370) with its iterations  *)
(* taken in any order and their steps interleaved: every source zone is     *)
(* started once, each started walk is a thread of its own, and a step of a  *)
(* thread is one pass through the walk's loop with its one write by max.    *)

UnorderedLength == 7

UnorderedSteps == {-16, 0}

UnorderedTerrains ==
  { profile_terrain(along, steps) :
      along \in {"columns", "rows"},
      steps \in [1..(UnorderedLength - 1) -> UnorderedSteps] }

UnorderedInit ==
  /\ SearchIdle
  /\ \E t \in UnorderedTerrains :
       /\ width = t.width
       /\ height = t.height
       /\ elevations = t.elevations
  /\ elevation_unit = "sixteenth"
  /\ excluded_js \in {JsArray(<<"east", "south">>),
                      JsArray(<<"east", "west", "north", "south">>)}
  /\ excluded_aspects = from_value(excluded_js)
  /\ probe = [call |-> "unordered", started |-> {}]
  /\ first_run = << >>
  /\ walks = {}
  /\ azimuths = << >>
  /\ gradients = << >>
  /\ apc = "convolve"
  /\ flow_dir = << >>
  /\ runout = << >>
  /\ scan = 0
  /\ current_y = 0
  /\ current_x = 0
  /\ runout_cells = 0
  /\ current_intensity = 0
  /\ spread_count = 0

\* a write that replaces the cell's value
plain_write(R, y, x, intensity) == [R EXCEPT ![y][x] = intensity]

\* azimuth.rs:305 and 354: runout[y][x] = runout[y][x].max(intensity)
max_write(R, y, x, intensity) == [R EXCEPT ![y][x] = Max(@, intensity)]

\* azimuth.rs:273-312 for one source zone not yet started: the edge blend,
\* and the walk's variables at its source
StartWalk ==
  /\ apc = "scan"
  /\ \E c \in SourceZones \ probe.started :
       /\ probe' = [probe EXCEPT !.started = @ \cup {c}]
       /\ runout' = IF gradients[c[1]][c[2]] < BlendLimit
                      THEN max_write(runout, c[1], c[2], EdgeBlendIntensity(c))
                      ELSE runout
       /\ walks' = walks \cup {[source |-> c, current_y |-> c[1],
                                current_x |-> c[2], runout_cells |-> 0,
                                current_intensity |-> INITIAL_INTENSITY]}
  /\ UNCHANGED <<inputVars, searchVars, apc, flow_dir, scan, walkVars,
                 spread_count, elevation_unit, first_run>>

\* azimuth.rs:314-367: one turn of the loop of one started walk
StepWalk ==
  /\ apc = "scan"
  /\ \E w \in walks :
       LET dir    == flow_dir[w.current_y][w.current_x]
           next_y == w.current_y + D8_OFFSETS[dir + 1][1]
           next_x == w.current_x + D8_OFFSETS[dir + 1][2]
           faded  == decay(w.current_intensity)
       IN  IF dir = NoFlow
             THEN walks' = walks \ {w} /\ UNCHANGED runout
           ELSE IF next_y = 0 \/ next_y >= height - 1
                   \/ next_x = 0 \/ next_x >= width - 1
             THEN walks' = walks \ {w} /\ UNCHANGED runout
           ELSE /\ runout' = IF walk_marks(next_y, next_x)
                               THEN max_write(runout, next_y, next_x, faded)
                               ELSE runout
                /\ walks' =
                     (walks \ {w}) \cup
                       (IF w.runout_cells + 1 >= MAX_RUNOUT_CELLS \/ faded < FadeLimit
                          THEN {}
                          ELSE {[w EXCEPT !.current_y = next_y,
                                          !.current_x = next_x,
                                          !.runout_cells = @ + 1,
                                          !.current_intensity = faded]})
  /\ UNCHANGED <<inputVars, searchVars, apc, flow_dir, scan, walkVars,
                 spread_count, elevation_unit, probe, first_run>>

\* every source zone has been started and every walk has ended: the scan is
\* over
JoinWalks ==
  /\ apc = "scan"
  /\ probe.started = SourceZones
  /\ walks = {}
  /\ scan' = scan_end
  /\ apc' = "spread"
  /\ UNCHANGED <<inputVars, searchVars, flow_dir, runout, walkVars,
                 spread_count, elevation_unit, sideVars>>

UnorderedNext == Convolve \/ EnterRunout \/ StartWalk \/ StepWalk \/ JoinWalks

SpecUnordered == UnorderedInit /\ [][UnorderedNext]_vars

\* the walk's loop as the code runs it, from one cell to the end of the walk
RECURSIVE walk_from(_, _, _, _, _)
walk_from(R, y, x, cells, intensity) ==
  LET dir    == flow_dir[y][x]
      next_y == y + D8_OFFSETS[dir + 1][1]
      next_x == x + D8_OFFSETS[dir + 1][2]
      faded  == decay(intensity)
  IN  IF dir = NoFlow THEN R
      ELSE IF next_y = 0 \/ next_y >= height - 1
              \/ next_x = 0 \/ next_x >= width - 1 THEN R
      ELSE LET marked == IF is_source_zone(next_y, next_x) THEN R
                         ELSE [R EXCEPT ![next_y][next_x] = Max(@, faded)]
           IN  IF cells + 1 >= MAX_RUNOUT_CELLS \/ faded < FadeLimit
                 THEN marked
                 ELSE walk_from(marked, next_y, next_x, cells + 1, faded)

\* the scan as the code runs it, row by row, from its k-th cell on
RECURSIVE scan_from(_, _)
scan_from(R, k) ==
  IF k >= scan_end THEN R
  ELSE LET c == scan_cell(k)
       IN  IF is_source_zone(c[1], c[2])
             THEN scan_from(walk_from(edge_blend(R, c[1], c[2]), c[1], c[2],
                                      0, INITIAL_INTENSITY), k + 1)
             ELSE scan_from(R, k + 1)

ZeroGrid == [i \in 0..(height - 1) |-> [j \in 0..(width - 1) |-> 0]]

\* the place of a cell in the row-by-row scan
scan_index(c) == (c[1] - 1) * (width - 2) + (c[2] - 1)

\* C17: the runout grid obtained after edge blending and downslope
\* propagation, before the lateral spread, is the same for every order, and
\* every interleaving of per-cell max writes, in which the source cells are
\* processed: it is the grid of the row-by-row scan.
C17_AnyOrderSameGrid ==
  (apc = "spread" /\ spread_count = 0) => runout = scan_from(ZeroGrid, 0)

\* two walks run at once, the scan's first source is not started yet, and
\* a cell off the sources holds less than one of the walks will offer it
C17_Witness ==
  /\ apc = "scan"
  /\ Cardinality(walks) >= 2
  /\ \E c \in SourceZones \ probe.started :
       \A d \in SourceZones : scan_index(c) <= scan_index(d)
  /\ \E w \in walks, c \in InteriorPixels \ SourceZones :
       /\ runout[c[1]][c[2]] > 0
       /\ w.runout_cells = 0
       /\ flow_step(<<w.current_y, w.current_x>>) = c
       /\ decay(w.current_intensity) > runout[c[1]][c[2]]

-----------------------------------------------------------------------------
(* The heuristic against the cost of a move *)

\* C18: the search heuristic h(n) = trunc(10 * sqrt(dx^2 + dy^2)) to the end
\* pixel is consistent with the integer edge cost: for every move n -> n'
\* produced by the successor function, h(n) <= cost(n, n') + h(n'), and
\* h(t) = 0.
C18_HeuristicConsistent ==
  /\ heuristic(end_node) = 0
  /\ \A n \in Cells(width, height) :
       LET moves == neighbors(n[1], n[2])
       IN  \A k \in 1..Len(moves) :
             heuristic(n) <= moves[k][2] + heuristic(moves[k][1])

-----------------------------------------------------------------------------
(* The walk's counter and intensity *)

\* 0.92^k in 1/10^7, each product cut to the unit
RECURSIVE Faded(_)
Faded(k) == IF k = 0 THEN INITIAL_INTENSITY ELSE (Faded(k - 1) * 92) \div 100

\* one turn of the walk's loop: the walk ends at a sink or before the outer
\* ring without entering a cell; else it enters the next cell of the flow,
\* source zone or not, counts it, offers it 0.92^k and writes that by max
\* unless the cell is a source zone, and goes on while fewer than 50 cells
\* are entered and the intensity is at least 0.05
WalkTurn ==
  apc = "walk" =>
    LET here == <<current_y, current_x>>
        next == flow_step(here)
    IN  IF next = here \/ next \notin InteriorPixels
          THEN apc' = "scan" /\ UNCHANGED <<runout, walkVars>>
          ELSE /\ <<current_y', current_x'>> = next
               /\ runout_cells' = runout_cells + 1
               /\ current_intensity' = Faded(runout_cells + 1)
               /\ runout' = IF next \in SourceZones THEN runout
                            ELSE [runout EXCEPT ![next[1]][next[2]] =
                                    Max(@, Faded(runout_cells + 1))]
               /\ (apc' = "walk") <=>
                    (runout_cells' < MAX_RUNOUT_CELLS
                       /\ current_intensity' >= FadeLimit)

\* C19: in each downslope walk from a source the step counter and the 0.92
\* decay advance on every cell entered, source zones included; the k-th cell
\* entered is offered 0.92^k, written by max only if it is no source zone;
\* every walk ends after entering at most 50 cells, or earlier at a sink, on
\* reaching the outer boundary, or once the intensity is below 0.05.
C19_WalkCountsEveryCell ==
  /\ [](apc = "walk" =>
          /\ runout_cells < MAX_RUNOUT_CELLS
          /\ current_intensity = Faded(runout_cells)
          /\ current_intensity >= FadeLimit)
  /\ [][WalkTurn]_vars

\* a walk whose first cell entered was a source zone stands on a later cell
\* that is none and holds what the walk offered it
C19_Witness ==
  /\ apc = "walk"
  /\ runout_cells >= 2
  /\ is_source_zone(flow_step(scan_cell(scan))[1], flow_step(scan_cell(scan))[2])
  /\ ~is_source_zone(current_y, current_x)
  /\ runout[current_y][current_x] = current_intensity
  /\ current_intensity = Faded(runout_cells)

-----------------------------------------------------------------------------
(* Calls with an excluded_aspects argument that is present but is no list   *)
(* of sector tags: an array with an unknown tag beside "east", an array     *)
(* with the tag capitalised, a value that is no array; and, for comparison, *)
(* the list ["east"].  The path finder runs on the flat small grid with a   *)
(* steep east-facing cell, the analyzer on the profile terrains.            *)

UnreadableChoices ==
  { JsArray(<<"east", "upward">>), JsArray(<<"East">>), JsOther,
    JsArray(<<"east">>) }

UnreadableInit ==
  /\ excluded_js \in UnreadableChoices
  /\ excluded_aspects = from_value(excluded_js)
  /\ \/ /\ width = GridSize
        /\ height = GridSize
        /\ elevations = WallTerrain(GridSize, GridSize, 1, 0)
        /\ \E hz \in Cells(GridSize, GridSize) :
             /\ azimuths = HazardAzimuths(GridSize, GridSize, hz)
             /\ gradients = HazardGradients(GridSize, GridSize, hz)
        /\ start_node = <<0, 1>>
        /\ end_node \in Cells(GridSize, GridSize)
        /\ max_gradient = 8
        /\ aspect_gradient_threshold = 0
        /\ \E callback \in BOOLEAN :
             InitSearch(callback, IF callback THEN MaxBatch ELSE 1)
     \/ /\ SearchIdle
        /\ apc = "convolve"
        /\ flow_dir = << >>
        /\ runout = << >>
        /\ scan = 0
        /\ current_y = 0
        /\ current_x = 0
        /\ runout_cells = 0
        /\ current_intensity = 0
        /\ spread_count = 0
        /\ elevation_unit = "sixteenth"
        /\ first_run = << >>
        /\ walks = {}
        /\ \E t \in UnorderedTerrains :
             /\ width = t.width
             /\ height = t.height
             /\ elevations = t.elevations
        /\ azimuths = << >>
        /\ gradients = << >>
        /\ probe = << >>

UnreadableNext == Next \/ AnalysisNext

SpecUnreadable == UnreadableInit /\ [][UnreadableNext]_vars

\* the argument is present and is no list of lowercase sector tags
Unreadable == excluded_js.kind \notin {"undefined", "null"} /\ ~deserializes(excluded_js)

\* C20: when the excluded_aspects argument is present but cannot be
\* deserialized as a list of lowercase sector tags, no error is returned:
\* the whole set is treated as empty, so the analyzer returns R identically
\* zero and the path finder applies no aspect rejection to any neighbour.
C20_UnreadableAspectsAreNone ==
  Unreadable =>
    /\ excluded_aspects = {}
    /\ apc = "returned" => \A c \in Pixels : runout[c[1]][c[2]] = 0
    /\ pc # "idle" =>
         \A n \in Cells(width, height) :
           LET open == { k \in 1..Len(DIRECTIONS) :
                          /\ in_bounds(n[1] + DIRECTIONS[k][1], n[2] + DIRECTIONS[k][2])
                          /\ edge_ok(n[1], n[2], n[1] + DIRECTIONS[k][1],
                                     n[2] + DIRECTIONS[k][2]) }
           IN  Len(neighbors(n[1], n[2])) = Cardinality(open)
    /\ pc = "done" => Returned

\* the analyzer has returned for an argument with an unknown tag beside
\* "east", on a terrain with a cell steep enough and facing east
C20_Witness ==
  /\ Unreadable
  /\ excluded_js.kind = "array"
  /\ apc = "returned"
  /\ \E c \in InteriorPixels :
       /\ gradients[c[1]][c[2]] >= START_ZONE_THRESHOLD
       /\ contains_azimuth("east", azimuths[c[1]][c[2]], 225)
       /\ flow_dir = << >>

====
